---- MODULE Spec2Model ----
(***************************************************************************)
(* Model of WorkdayAPIntegration (src/API_Integration_Workday.py): the     *)
(* OAuth token cache and the three invoice operations, each invocation one *)
(* atomic step of a single-threaded caller.  The HTTP server and the clock *)
(* are the environment: every invocation draws the answers its requests    *)
(* would receive from small sets.                                          *)
(***************************************************************************)
EXTENDS Integers, Sequences, FiniteSets, TLC

VARIABLES tenant_url, client_id, client_secret, token, token_expiry,
          now, json_error_wrapped, last, logged

vars == <<tenant_url, client_id, client_secret, token, token_expiry,
          now, json_error_wrapped, last, logged>>

(* ---------------- bounds ---------------- *)
MaxTime == 3
MaxItems == 3

(* ---------------- Python values ---------------- *)
PyNone == [kind |-> "None"]
PyStr(s) == [kind |-> "str", val |-> s]
PyFloat(x) == [kind |-> "float", val |-> x]
PyDateTime(x) == [kind |-> "datetime", val |-> x]

\* bool(v) of a Python value
Truthy(v) ==
  CASE v.kind = "None" -> FALSE
    [] v.kind = "str" -> v.val /= ""
    [] v.kind = "float" -> v.val /= 0
    [] OTHER -> TRUE

\* a > b : ordered only between values of the same type, TypeError otherwise
PyGreater(a, b) ==
  IF a.kind = b.kind THEN (IF a.val > b.val THEN "True" ELSE "False")
  ELSE "TypeError"

\* dict.get(k, default)
DictGet(d, k, default) == IF k \in DOMAIN d THEN d[k] ELSE default

\* the first key of ks (in evaluation order) that d lacks, "" when none
RECURSIVE FirstMissing(_, _)
FirstMissing(d, ks) ==
  IF ks = <<>> THEN ""
  ELSE IF Head(ks) \notin DOMAIN d THEN Head(ks)
  ELSE FirstMissing(d, Tail(ks))

(* ---------------- outcomes of an invocation ---------------- *)
Return(v) == [kind |-> "return", value |-> v]
Raise(type, msg) == [kind |-> "raise", type |-> type, msg |-> msg]

TypeErrorText == "'>' not supported between instances of 'float' and 'datetime.datetime'"

\* base64.b64encode(s.encode()).decode()
B64Encode(parts) == [b64 |-> parts]

(* ---------------- the requests library ---------------- *)
\* A response drawn by the environment for one request:
\*   kind "transport" : the call raises a RequestException, there is no response
\*   kind "http"      : a response with status, reason and body text; json_ok
\*                      says whether the body parses, json is the parsed object
\*   latency          : seconds the call takes on the wall clock

StatusText(status) ==
  CASE status = 200 -> "200" [] status = 304 -> "304" [] status = 401 -> "401"
    [] status = 404 -> "404" [] OTHER -> "status"

\* Response.raise_for_status(): HTTPError for 4xx and 5xx
RaisesForStatus(resp) == resp.status >= 400 /\ resp.status < 600

\* Response.ok, which is also bool(response)
ResponseOk(resp) == ~RaisesForStatus(resp)

\* requests.post/get/put followed by raise_for_status() raised
RequestFailed(resp) == resp.kind = "transport" \/ RaisesForStatus(resp)

\* str(e) of the RequestException of a failed call, as text parts
ExcText(resp, url) ==
  IF resp.kind = "transport" THEN <<"Connection error for url: ">> \o url
  ELSE IF RaisesForStatus(resp)
  THEN <<StatusText(resp.status), " Error: ", resp.reason, " for url: ">> \o url
  ELSE <<"Expecting value: line 1 column 1 (char 0)">>

\* hasattr(e, 'response') and e.response : the exception of a transport or
\* JSON failure carries no response, and a response is truthy when it is ok
HasTruthyResponse(resp) ==
  IF resp.kind = "transport" \/ ~RaisesForStatus(resp) THEN FALSE
  ELSE ResponseOk(resp)

LogRecord(level, parts) == [level |-> level, msg |-> parts]

(* ---------------- get_auth_token ---------------- *)
TokenUrl(self) == <<self.tenant_url, "/ccx/oauth2/token">>

TokenRequest(self) ==
  [endpoint |-> "token", method |-> "POST", url |-> TokenUrl(self),
   headers |-> [Authorization |->
                  <<"Basic ", B64Encode(<<self.client_id, ":", self.client_secret>>)>>,
                ContentType |-> "application/x-www-form-urlencoded"],
   body |-> [grant_type |-> "client_credentials", scope |-> "workday_api"]]

\* line 33: self.token and self.token_expiry and self.token_expiry > datetime.now()
CacheCheck(tok, expiry, t) ==
  IF ~Truthy(tok) THEN "miss"
  ELSE IF ~Truthy(expiry) THEN "miss"
  ELSE LET g == PyGreater(expiry, PyDateTime(t))
       IN IF g = "TypeError" THEN "TypeError"
          ELSE IF g = "True" THEN "hit" ELSE "miss"

AuthResult(tok, expiry, reqs, log, outcome, t) ==
  [token |-> tok, token_expiry |-> expiry, reqs |-> reqs, log |-> log,
   outcome |-> outcome, now |-> t]

\* a variant that tries the token endpoint a second time before giving up
AuthFailure_Retried(self, t, tresp) ==
  AuthResult(self.token, self.token_expiry, <<TokenRequest(self), TokenRequest(self)>>,
     <<LogRecord("error", <<"Authentication error: ">> \o ExcText(tresp, TokenUrl(self)))>>,
     Raise("Exception", <<"Failed to authenticate with Workday: ">>
                           \o ExcText(tresp, TokenUrl(self))),
     t + tresp.latency)

\* lines 59-61: the except branch of get_auth_token
AuthFailure(self, t, tresp) ==
  AuthResult(self.token, self.token_expiry, <<TokenRequest(self)>>,
     <<LogRecord("error", <<"Authentication error: ">> \o ExcText(tresp, TokenUrl(self)))>>,
     Raise("Exception", <<"Failed to authenticate with Workday: ">>
                           \o ExcText(tresp, TokenUrl(self))),
     t + tresp.latency)

\* self: the instance fields; t: the wall clock at the call; tresp: the answer
\* of the token endpoint; wraps: whether this requests version raises a
\* RequestException for a body that is not JSON (a ValueError otherwise)
GetAuthToken(self, t, tresp, wraps) ==
  LET check == CacheCheck(self.token, self.token_expiry, t)
      req == TokenRequest(self)
      t2 == t + tresp.latency
  IN
  IF check = "hit"
  THEN AuthResult(self.token, self.token_expiry, <<>>, <<>>, Return(self.token), t)
  ELSE IF check = "TypeError"
  THEN AuthResult(self.token, self.token_expiry, <<>>, <<>>,
                  Raise("TypeError", <<TypeErrorText>>), t)
  ELSE IF RequestFailed(tresp) THEN AuthFailure(self, t, tresp)
  ELSE IF ~tresp.json_ok
  THEN IF wraps THEN AuthFailure(self, t, tresp)
       ELSE AuthResult(self.token, self.token_expiry, <<req>>, <<>>,
                       Raise("ValueError", ExcText(tresp, TokenUrl(self))), t2)
  ELSE IF "access_token" \notin DOMAIN tresp.json
  THEN AuthResult(self.token, self.token_expiry, <<req>>, <<>>,
                  Raise("KeyError", <<"access_token">>), t2)
  ELSE IF "expires_in" \notin DOMAIN tresp.json
  THEN AuthResult(PyStr(tresp.json.access_token), self.token_expiry, <<req>>, <<>>,
                  Raise("KeyError", <<"expires_in">>), t2)
  ELSE AuthResult(PyStr(tresp.json.access_token),
                  PyFloat(t2 + tresp.json.expires_in), <<req>>, <<>>,
                  Return(PyStr(tresp.json.access_token)), t2)

(* ---------------- create_invoice ---------------- *)
InvoicesUrl(self) ==
  <<self.tenant_url, "/api/v1/financial-management/suppliers/invoices">>

\* one element of the invoiceLines comprehension; idx is enumerate's 0-based index
\* a variant that numbers the lines with enumerate's index itself
InvoiceLine_ZeroBased(invoice_data, idx, item) ==
  [lineNumber |-> idx,
   itemDescription |-> DictGet(item, "description", ""),
   amount |-> [amount |-> item["amount"],
               currency |-> DictGet(invoice_data, "currency", "USD")],
   costCenter |-> DictGet(item, "cost_center", ""),
   projectReference |-> DictGet(item, "project_id", ""),
   accountCategory |-> DictGet(item, "account_category", "")]

\* a variant that lets a line item's own currency override the invoice's
InvoiceLine_ItemCurrency(invoice_data, idx, item) ==
  [lineNumber |-> idx + 1,
   itemDescription |-> DictGet(item, "description", ""),
   amount |-> [amount |-> item["amount"],
               currency |-> DictGet(item, "currency",
                                    DictGet(invoice_data, "currency", "USD"))],
   costCenter |-> DictGet(item, "cost_center", ""),
   projectReference |-> DictGet(item, "project_id", ""),
   accountCategory |-> DictGet(item, "account_category", "")]

InvoiceLine(invoice_data, idx, item) ==
  [lineNumber |-> idx + 1,
   itemDescription |-> DictGet(item, "description", ""),
   amount |-> [amount |-> item["amount"],
               currency |-> DictGet(invoice_data, "currency", "USD")],
   costCenter |-> DictGet(item, "cost_center", ""),
   projectReference |-> DictGet(item, "project_id", ""),
   accountCategory |-> DictGet(item, "account_category", "")]

\* the key whose lookup raises KeyError while formatted_invoice is built, in
\* evaluation order; "" when the payload can be built
InvoiceMissingKey(invoice_data) ==
  LET k == FirstMissing(invoice_data,
             <<"supplier_id", "invoice_number", "invoice_date",
               "total_amount", "line_items">>)
  IN IF k /= "" THEN k
     ELSE IF \E i \in 1..Len(invoice_data["line_items"]) :
               "amount" \notin DOMAIN invoice_data["line_items"][i]
     THEN "amount"
     ELSE ""

FormatInvoice(invoice_data) ==
  [supplierReference |-> invoice_data["supplier_id"],
   invoiceNumber |-> invoice_data["invoice_number"],
   invoiceDate |-> invoice_data["invoice_date"],
   invoiceDescription |-> DictGet(invoice_data, "description", ""),
   invoiceTotal |-> [amount |-> invoice_data["total_amount"],
                     currency |-> DictGet(invoice_data, "currency", "USD")],
   invoiceLines |-> [i \in 1..Len(invoice_data["line_items"]) |->
                       InvoiceLine(invoice_data, i - 1, invoice_data["line_items"][i])]]

BearerHeaders(tok, withContentType) ==
  IF withContentType
  THEN [Authorization |-> <<"Bearer ", tok.val>>,
        ContentType |-> "application/json", Accept |-> "application/json"]
  ELSE [Authorization |-> <<"Bearer ", tok.val>>, Accept |-> "application/json"]

\* the result of an operation whose token acquisition or payload building raised
\* a variant that swallows the error and returns None
Propagate_Swallowed(auth, outcome) ==
  AuthResult(auth.token, auth.token_expiry, auth.reqs, auth.log, Return(PyNone), auth.now)

Propagate(auth, outcome) ==
  AuthResult(auth.token, auth.token_expiry, auth.reqs, auth.log, outcome, auth.now)

\* a variant that logs the failure and returns None instead of raising
CreateInvoiceFailure_Swallowed(auth, req, iresp) ==
  AuthResult(auth.token, auth.token_expiry, auth.reqs \o <<req>>,
     auth.log
       \o <<LogRecord("error", <<"Error creating invoice: ">> \o ExcText(iresp, req.url))>>,
     Return(PyNone), auth.now)

\* a variant that logs the Authorization header of the failed request
CreateInvoiceFailure_LogsHeaders(auth, req, iresp) ==
  AuthResult(auth.token, auth.token_expiry, auth.reqs \o <<req>>,
     auth.log
       \o <<LogRecord("error", <<"Error creating invoice: ">> \o ExcText(iresp, req.url)
                                 \o req.headers.Authorization)>>,
     Raise("Exception", <<"Failed to create invoice in Workday: ">>
                           \o ExcText(iresp, req.url)),
     auth.now)

\* lines 115-119: the except branch of create_invoice
CreateInvoiceFailure(auth, req, iresp) ==
  AuthResult(auth.token, auth.token_expiry, auth.reqs \o <<req>>,
     auth.log
       \o <<LogRecord("error", <<"Error creating invoice: ">> \o ExcText(iresp, req.url))>>
       \o (IF HasTruthyResponse(iresp)
           THEN <<LogRecord("error", <<"Response: ", iresp.text>>)>> ELSE <<>>),
     Raise("Exception", <<"Failed to create invoice in Workday: ">>
                           \o ExcText(iresp, req.url)),
     auth.now)

CreateInvoice(self, t, invoice_data, tresp, iresp, wraps) ==
  LET auth == GetAuthToken(self, t, tresp, wraps)
      req == [endpoint |-> "create", method |-> "POST", url |-> InvoicesUrl(self),
              headers |-> BearerHeaders(auth.outcome.value, TRUE),
              body |-> FormatInvoice(invoice_data)]
  IN
  IF auth.outcome.kind = "raise" THEN auth
  ELSE IF InvoiceMissingKey(invoice_data) /= ""
  THEN Propagate(auth, Raise("KeyError", <<InvoiceMissingKey(invoice_data)>>))
  ELSE IF RequestFailed(iresp) THEN CreateInvoiceFailure(auth, req, iresp)
  ELSE IF ~iresp.json_ok
  THEN IF wraps THEN CreateInvoiceFailure(auth, req, iresp)
       ELSE AuthResult(auth.token, auth.token_expiry, auth.reqs \o <<req>>, auth.log,
                       Raise("ValueError", ExcText(iresp, req.url)), auth.now)
  ELSE AuthResult(auth.token, auth.token_expiry, auth.reqs \o <<req>>,
          auth.log \o <<LogRecord("info", <<"Successfully created invoice ",
                                            invoice_data["invoice_number"],
                                            " in Workday">>)>>,
          Return(iresp.json), auth.now)

(* ---------------- get_invoice_status ---------------- *)
InvoiceUrl(self, invoice_id) ==
  <<self.tenant_url, "/api/v1/financial-management/suppliers/invoices/", invoice_id>>

StatusFailure(auth, req, iresp) ==
  AuthResult(auth.token, auth.token_expiry, auth.reqs \o <<req>>,
     auth.log
       \o <<LogRecord("error", <<"Error getting invoice status: ">>
                                 \o ExcText(iresp, req.url))>>,
     Raise("Exception", <<"Failed to get invoice status from Workday: ">>
                           \o ExcText(iresp, req.url)),
     auth.now)

GetInvoiceStatus(self, t, invoice_id, tresp, iresp, wraps) ==
  LET auth == GetAuthToken(self, t, tresp, wraps)
      req == [endpoint |-> "status", method |-> "GET",
              url |-> InvoiceUrl(self, invoice_id),
              headers |-> BearerHeaders(auth.outcome.value, FALSE)]
  IN
  IF auth.outcome.kind = "raise" THEN auth
  ELSE IF RequestFailed(iresp) THEN StatusFailure(auth, req, iresp)
  ELSE IF ~iresp.json_ok
  THEN IF wraps THEN StatusFailure(auth, req, iresp)
       ELSE AuthResult(auth.token, auth.token_expiry, auth.reqs \o <<req>>, auth.log,
                       Raise("ValueError", ExcText(iresp, req.url)), auth.now)
  ELSE AuthResult(auth.token, auth.token_expiry, auth.reqs \o <<req>>, auth.log,
                  Return(iresp.json), auth.now)

(* ---------------- update_invoice_payment ---------------- *)
PaymentsUrl(self, invoice_id) ==
  <<self.tenant_url, "/api/v1/financial-management/suppliers/invoices/",
    invoice_id, "/payments">>

PaymentMissingKey(payment_data) ==
  FirstMissing(payment_data, <<"payment_date", "payment_method", "amount">>)

FormatPayment(payment_data) ==
  [paymentDate |-> payment_data["payment_date"],
   paymentMethod |-> payment_data["payment_method"],
   paymentAmount |-> [amount |-> payment_data["amount"],
                      currency |-> DictGet(payment_data, "currency", "USD")],
   paymentReference |-> DictGet(payment_data, "reference", "")]

PaymentFailure(auth, req, iresp) ==
  AuthResult(auth.token, auth.token_expiry, auth.reqs \o <<req>>,
     auth.log
       \o <<LogRecord("error", <<"Error updating payment: ">> \o ExcText(iresp, req.url))>>,
     Raise("Exception", <<"Failed to update invoice payment in Workday: ">>
                           \o ExcText(iresp, req.url)),
     auth.now)

UpdateInvoicePayment(self, t, invoice_id, payment_data, tresp, iresp, wraps) ==
  LET auth == GetAuthToken(self, t, tresp, wraps)
      req == [endpoint |-> "payments", method |-> "PUT",
              url |-> PaymentsUrl(self, invoice_id),
              headers |-> BearerHeaders(auth.outcome.value, TRUE),
              body |-> FormatPayment(payment_data)]
      \* line 181 logs the success before line 182 parses the body
      succeeded == [auth EXCEPT !.log = auth.log \o
                      <<LogRecord("info", <<"Successfully updated payment for invoice ",
                                            invoice_id>>)>>]
  IN
  IF auth.outcome.kind = "raise" THEN auth
  ELSE IF PaymentMissingKey(payment_data) /= ""
  THEN Propagate(auth, Raise("KeyError", <<PaymentMissingKey(payment_data)>>))
  ELSE IF RequestFailed(iresp) THEN PaymentFailure(auth, req, iresp)
  ELSE IF ~iresp.json_ok
  THEN IF wraps THEN PaymentFailure(succeeded, req, iresp)
       ELSE AuthResult(auth.token, auth.token_expiry, auth.reqs \o <<req>>,
                       succeeded.log,
                       Raise("ValueError", ExcText(iresp, req.url)), auth.now)
  ELSE AuthResult(auth.token, auth.token_expiry, auth.reqs \o <<req>>,
                  succeeded.log, Return(iresp.json), auth.now)

(* ---------------- inputs ---------------- *)
WORKDAY_TENANT == "https://wd2-impl-services1.workday.com"
CLIENT_ID == "your_client_id"
CLIENT_SECRET == "your_client_secret"

\* answers of the token endpoint
TokenResponses ==
  { [kind |-> "transport", latency |-> 0],
    [kind |-> "http", status |-> 401, reason |-> "Unauthorized", text |-> "denied",
     json_ok |-> FALSE, latency |-> 0],
    [kind |-> "http", status |-> 200, reason |-> "OK", text |-> "<html>",
     json_ok |-> FALSE, latency |-> 0],
    [kind |-> "http", status |-> 200, reason |-> "OK", text |-> "json", json_ok |-> TRUE,
     json |-> [access_token |-> "tok-1", expires_in |-> 2], latency |-> 0],
    [kind |-> "http", status |-> 200, reason |-> "OK", text |-> "json", json_ok |-> TRUE,
     json |-> [access_token |-> "tok-2", expires_in |-> 1], latency |-> 1],
    [kind |-> "http", status |-> 200, reason |-> "OK", text |-> "json", json_ok |-> TRUE,
     json |-> [access_token |-> "", expires_in |-> 1], latency |-> 0],
    [kind |-> "http", status |-> 200, reason |-> "OK", text |-> "json", json_ok |-> TRUE,
     json |-> [access_token |-> "tok-1"], latency |-> 0] }

\* answers of the invoice endpoints
InvoiceResponses ==
  { [kind |-> "transport"],
    [kind |-> "http", status |-> 404, reason |-> "Not Found",
     text |-> "no such supplier", json_ok |-> FALSE],
    [kind |-> "http", status |-> 304, reason |-> "Not Modified", text |-> "",
     json_ok |-> FALSE],
    [kind |-> "http", status |-> 200, reason |-> "OK", text |-> "json", json_ok |-> TRUE,
     json |-> [id |-> "WID-1", approvalStatus |-> "Approved",
               paymentStatus |-> "Paid"]] }

GoodTokenResponses ==
  { r \in TokenResponses : r.kind = "transport" \/
      (r.json_ok /\ r.latency = 0 /\ DOMAIN r.json = {"access_token", "expires_in"}
         /\ r.json.access_token = "tok-1") }

GoodInvoiceResponses == { r \in InvoiceResponses : r.kind = "http" /\ r.status = 200 }

ItemShapes ==
  { [amount |-> 10],
    [amount |-> 20, currency |-> "GBP", description |-> "Toner cartridges",
     cost_center |-> "CC-IT-001", project_id |-> "PRJ-7",
     account_category |-> "OFFICE_SUPPLIES"],
    [description |-> "Printer paper"] }

LineItemSeqs == UNION { [1..n -> ItemShapes] : n \in 0..MaxItems }

InvoiceMinimal ==
  [supplier_id |-> "SUPP-001234", invoice_number |-> "INV-2025-0012",
   invoice_date |-> "2025-03-01", total_amount |-> 30]

InvoiceFull ==
  InvoiceMinimal @@ [description |-> "Office supplies for Q1", currency |-> "EUR"]

\* d without key k
DictWithout(d, k) == [x \in DOMAIN d \ {k} |-> d[x]]

ExampleItems == <<[amount |-> 10], [amount |-> 20, currency |-> "GBP"]>>

\* every shape of request: both bases with every line item sequence, and each
\* required key missing in turn
InvoiceRequests ==
  { b @@ [line_items |-> li] : b \in {InvoiceMinimal, InvoiceFull}, li \in LineItemSeqs }
  \cup { DictWithout(InvoiceFull @@ [line_items |-> ExampleItems], k) :
           k \in {"supplier_id", "invoice_number", "invoice_date",
                  "total_amount", "line_items"} }

\* the requests the caller of the full environment makes
SomeInvoiceRequests ==
  { InvoiceFull @@ [line_items |-> ExampleItems], InvoiceMinimal }

PaymentFull ==
  [payment_date |-> "2025-03-15", payment_method |-> "ACH", amount |-> 30,
   currency |-> "EUR", reference |-> "PMT-2025-0089"]

PaymentMinimal == [payment_date |-> "2025-03-15", payment_method |-> "ACH", amount |-> 30]

PaymentRequests ==
  { PaymentFull, PaymentMinimal }
  \cup { DictWithout(PaymentFull, k) : k \in {"payment_date", "payment_method", "amount"} }

SomePaymentRequests == { PaymentMinimal, DictWithout(PaymentFull, "amount") }

InvoiceIds == {"WID-1", "WID-2"}

(* ---------------- the state machine ---------------- *)
Self ==
  [tenant_url |-> tenant_url, client_id |-> client_id, client_secret |-> client_secret,
   token |-> token, token_expiry |-> token_expiry]

\* __init__, lines 25-29; the clock reads a positive timestamp
Init ==
  /\ tenant_url = WORKDAY_TENANT
  /\ client_id = CLIENT_ID
  /\ client_secret = CLIENT_SECRET
  /\ token = PyNone
  /\ token_expiry = PyNone
  /\ now = 1
  /\ json_error_wrapped \in BOOLEAN
  /\ last = [op |-> "init"]
  /\ logged = <<>>

\* what the caller keeps of an invocation that returned or raised with r
CallRecord(op, args, tresp, iresp, r) ==
  [op |-> op, args |-> args, pre_token |-> token, pre_expiry |-> token_expiry,
   call_time |-> now, return_time |-> r.now, tresp |-> tresp, iresp |-> iresp,
   reqs |-> r.reqs, outcome |-> r.outcome]

CallGetAuthToken ==
  \E tresp \in TokenResponses :
    \E r \in {GetAuthToken(Self, now, tresp, json_error_wrapped)} :
    /\ r.now <= MaxTime
    /\ token' = r.token
    /\ token_expiry' = r.token_expiry
    /\ now' = r.now
    /\ logged' = r.log
    /\ last' = CallRecord("get_auth_token", <<>>, tresp, [kind |-> "none"], r)
    /\ UNCHANGED <<tenant_url, client_id, client_secret, json_error_wrapped>>

CallCreateInvoice ==
  \E invoice_data \in SomeInvoiceRequests, tresp \in TokenResponses,
     iresp \in InvoiceResponses :
    \E r \in {CreateInvoice(Self, now, invoice_data, tresp, iresp, json_error_wrapped)} :
    /\ r.now <= MaxTime
    /\ token' = r.token
    /\ token_expiry' = r.token_expiry
    /\ now' = r.now
    /\ logged' = r.log
    /\ last' = CallRecord("create_invoice", <<invoice_data>>, tresp, iresp, r)
    /\ UNCHANGED <<tenant_url, client_id, client_secret, json_error_wrapped>>

CallGetInvoiceStatus ==
  \E invoice_id \in InvoiceIds, tresp \in TokenResponses, iresp \in InvoiceResponses :
    \E r \in {GetInvoiceStatus(Self, now, invoice_id, tresp, iresp, json_error_wrapped)} :
    /\ r.now <= MaxTime
    /\ token' = r.token
    /\ token_expiry' = r.token_expiry
    /\ now' = r.now
    /\ logged' = r.log
    /\ last' = CallRecord("get_invoice_status", <<invoice_id>>, tresp, iresp, r)
    /\ UNCHANGED <<tenant_url, client_id, client_secret, json_error_wrapped>>

CallUpdateInvoicePayment ==
  \E payment_data \in SomePaymentRequests, tresp \in TokenResponses,
     iresp \in InvoiceResponses :
    \E r \in {UpdateInvoicePayment(Self, now, "WID-1", payment_data, tresp, iresp,
                                  json_error_wrapped)} :
    /\ r.now <= MaxTime
    /\ token' = r.token
    /\ token_expiry' = r.token_expiry
    /\ now' = r.now
    /\ logged' = r.log
    /\ last' = CallRecord("update_invoice_payment", <<"WID-1", payment_data>>,
                          tresp, iresp, r)
    /\ UNCHANGED <<tenant_url, client_id, client_secret, json_error_wrapped>>

\* the wall clock advances between invocations
Tick ==
  /\ now < MaxTime
  /\ now' = now + 1
  /\ UNCHANGED <<tenant_url, client_id, client_secret, token, token_expiry,
                 json_error_wrapped, last, logged>>

Next ==
  \/ CallGetAuthToken
  \/ CallCreateInvoice
  \/ CallGetInvoiceStatus
  \/ CallUpdateInvoicePayment
  \/ Tick

Spec == Init /\ [][Next]_vars

\* the same client, called with every shape of request against a token
\* endpoint that grants or is unreachable and invoice endpoints that accept
CreateAnyInvoice ==
  \E invoice_data \in InvoiceRequests, tresp \in GoodTokenResponses,
     iresp \in GoodInvoiceResponses :
    \E r \in {CreateInvoice(Self, now, invoice_data, tresp, iresp, json_error_wrapped)} :
    /\ r.now <= MaxTime
    /\ token' = r.token
    /\ token_expiry' = r.token_expiry
    /\ now' = r.now
    /\ logged' = r.log
    /\ last' = CallRecord("create_invoice", <<invoice_data>>, tresp, iresp, r)
    /\ UNCHANGED <<tenant_url, client_id, client_secret, json_error_wrapped>>

UpdateAnyPayment ==
  \E payment_data \in PaymentRequests, tresp \in GoodTokenResponses,
     iresp \in GoodInvoiceResponses :
    \E r \in {UpdateInvoicePayment(Self, now, "WID-1", payment_data, tresp, iresp,
                                  json_error_wrapped)} :
    /\ r.now <= MaxTime
    /\ token' = r.token
    /\ token_expiry' = r.token_expiry
    /\ now' = r.now
    /\ logged' = r.log
    /\ last' = CallRecord("update_invoice_payment", <<"WID-1", payment_data>>,
                          tresp, iresp, r)
    /\ UNCHANGED <<tenant_url, client_id, client_secret, json_error_wrapped>>

NextRequests == CreateAnyInvoice \/ UpdateAnyPayment

SpecRequests == Init /\ [][NextRequests]_vars

(* ---------------- vocabulary of the properties ---------------- *)
Called == last.op /= "init"

InvoiceOps == {"create_invoice", "get_invoice_status", "update_invoice_payment"}

OwnEndpoint(op) ==
  CASE op = "get_auth_token" -> "token"
    [] op = "create_invoice" -> "create"
    [] op = "get_invoice_status" -> "status"
    [] op = "update_invoice_payment" -> "payments"

\* the requests the last invocation sent to endpoint e
RequestsTo(e) == { i \in 1..Len(last.reqs) : last.reqs[i].endpoint = e }

\* the answer the i-th request of the last invocation received
AnswerTo(i) == IF last.reqs[i].endpoint = "token" THEN last.tresp ELSE last.iresp

\* the token endpoint granted a token: 2xx, a JSON body with both fields
Granted(resp) ==
  /\ resp.kind = "http"
  /\ resp.status >= 200 /\ resp.status < 300
  /\ resp.json_ok
  /\ {"access_token", "expires_in"} \subseteq DOMAIN resp.json

\* the instance as the last invocation found it
PreSelf ==
  [tenant_url |-> tenant_url, client_id |-> client_id, client_secret |-> client_secret,
   token |-> last.pre_token, token_expiry |-> last.pre_expiry]

\* the token acquisition step of the last invocation
Acquisition == GetAuthToken(PreSelf, last.call_time, last.tresp, json_error_wrapped)

\* the last invocation found a (non-empty) token cached with an expiry strictly
\* in the future
CacheFresh ==
  /\ last.pre_token.kind = "str"
  /\ last.pre_token.val /= ""
  /\ last.pre_expiry.kind = "float"
  /\ last.pre_expiry.val > last.call_time

\* the last invocation found no token, or one whose expiry is not in the future
CacheStale ==
  \/ last.pre_token.kind = "None"
  \/ /\ last.pre_token.kind = "str"
     /\ last.pre_expiry.kind = "float"
     /\ last.pre_expiry.val <= last.call_time

TextParts(seq) == { seq[i] : i \in 1..Len(seq) }

(* ---------------- C1 ---------------- *)
\* C1: an invocation that finds a cached token whose expiry is strictly in the
\* future obtains that token normally and sends nothing to the token endpoint
\* (get_auth_token returns it; the other operations do not fail in acquisition).
C1_TokenReuse ==
  (Called /\ CacheFresh) =>
     /\ RequestsTo("token") = {}
     /\ Acquisition.outcome = Return(last.pre_token)
     /\ (last.op = "get_auth_token" => last.outcome = Return(last.pre_token))
     /\ last.outcome.kind = "raise" => last.outcome.type /= "TypeError"

(* ---------------- C2 ---------------- *)
\* C2: get_auth_token called with no cached token, or with one whose expiry is
\* not strictly in the future, against a token endpoint that grants, sends
\* exactly one token request, returns the access_token and caches it with
\* expiry = time of the call + expires_in (the clock as read when the
\* endpoint has answered).
C2_TokenRefresh ==
  (Called /\ last.op = "get_auth_token" /\ CacheStale /\ Granted(last.tresp)) =>
     /\ Cardinality(RequestsTo("token")) = 1
     /\ last.outcome = Return(PyStr(last.tresp.json.access_token))
     /\ token = PyStr(last.tresp.json.access_token)
     /\ token_expiry = PyFloat(last.return_time + last.tresp.json.expires_in)

(* ---------------- C3 ---------------- *)
\* the last request of the last invocation met a transport error or a 4xx/5xx
FailedAt(e) ==
  /\ Called
  /\ last.reqs /= <<>>
  /\ last.reqs[Len(last.reqs)].endpoint = e
  /\ RequestFailed(AnswerTo(Len(last.reqs)))

Endpoints == {"token", "create", "status", "payments"}

ErrorTypeOf(e) ==
  CASE e = "token" -> "AuthenticationError"
    [] e = "create" -> "InvoiceCreationError"
    [] e = "status" -> "StatusLookupError"
    [] e = "payments" -> "PaymentUpdateError"

FailureTextOf(e) ==
  CASE e = "token" -> "Failed to authenticate with Workday: "
    [] e = "create" -> "Failed to create invoice in Workday: "
    [] e = "status" -> "Failed to get invoice status from Workday: "
    [] e = "payments" -> "Failed to update invoice payment in Workday: "

\* C3 as stated: a transport error or HTTP failure at an endpoint reaches the
\* caller as the error type of that endpoint.
C3_TypedFailures ==
  \A e \in Endpoints :
    FailedAt(e) => /\ last.outcome.kind = "raise"
                   /\ last.outcome.type = ErrorTypeOf(e)

\* C3 amended: a transport error or 4xx/5xx answer at an endpoint reaches the
\* caller as a plain Exception, the same type for all four endpoints, whose
\* message begins with the text of that endpoint's operation; none is swallowed.
C3_FailuresByMessage ==
  \A e \in Endpoints :
    FailedAt(e) => /\ last.outcome.kind = "raise"
                   /\ last.outcome.type = "Exception"
                   /\ Head(last.outcome.msg) = FailureTextOf(e)

C3_Witness ==
  /\ FailedAt("create")
  /\ last.iresp.kind = "http"
  /\ last.outcome.kind = "raise"

(* ---------------- C5 ---------------- *)
\* C5: when an invoice endpoint answers non-2xx with a body, the text of the
\* body is in a log record of the invocation or in the error raised.
C5_BodyCaptured ==
  (/\ Called
   /\ \E i \in 1..Len(last.reqs) : last.reqs[i].endpoint /= "token"
   /\ last.iresp.kind = "http"
   /\ ~(last.iresp.status >= 200 /\ last.iresp.status < 300)
   /\ last.iresp.text /= "") =>
     \/ \E i \in 1..Len(logged) : last.iresp.text \in TextParts(logged[i].msg)
     \/ /\ last.outcome.kind = "raise"
        /\ last.iresp.text \in TextParts(last.outcome.msg)

(* ---------------- C6 ---------------- *)
\* C6: one invocation sends at most one request to the token endpoint and at
\* most one to its own endpoint, none to any other, and a request that did
\* not succeed is the last one it sends.
C6_NoRetry ==
  Called =>
     /\ Cardinality(RequestsTo("token")) <= 1
     /\ Cardinality(RequestsTo(OwnEndpoint(last.op))) <= 1
     /\ \A i \in 1..Len(last.reqs) :
          last.reqs[i].endpoint \in {"token", OwnEndpoint(last.op)}
     /\ \A i \in 1..Len(last.reqs) :
          i < Len(last.reqs) =>
            /\ last.reqs[i].endpoint = "token"
            /\ Granted(last.tresp)

C6_Witness ==
  /\ Called
  /\ last.op \in InvoiceOps
  /\ Len(last.reqs) = 1
  /\ FailedAt("token")

(* ---------------- C4 ---------------- *)
RequiredInvoiceKeys ==
  {"supplier_id", "invoice_number", "invoice_date", "total_amount", "line_items"}

RequiredPaymentKeys == {"payment_date", "payment_method", "amount"}

\* the keys the request of the last invocation lacks
MissingKeys ==
  IF last.op = "create_invoice"
  THEN LET d == last.args[1] IN
       (RequiredInvoiceKeys \ DOMAIN d)
       \cup (IF "line_items" \in DOMAIN d
                /\ \E i \in 1..Len(d["line_items"]) : "amount" \notin DOMAIN d["line_items"][i]
             THEN {"amount"} ELSE {})
  ELSE IF last.op = "update_invoice_payment"
  THEN RequiredPaymentKeys \ DOMAIN last.args[2]
  ELSE {}

\* C4 as stated: a request that lacks a required field fails with a
\* ValidationError.
C4_ValidationError ==
  (Called /\ MissingKeys /= {}) =>
     /\ last.outcome.kind = "raise"
     /\ last.outcome.type = "ValidationError"

\* C4 amended: a request that lacks a required field fails and nothing is sent
\* to an invoice endpoint; the error is the one of token acquisition when that
\* fails, and otherwise a KeyError naming a missing field.
C4_LookupFailure ==
  (Called /\ MissingKeys /= {}) =>
     /\ last.outcome.kind = "raise"
     /\ RequestsTo(OwnEndpoint(last.op)) = {}
     /\ IF Acquisition.outcome.kind = "raise"
        THEN last.outcome = Acquisition.outcome
        ELSE /\ last.outcome.type = "KeyError"
             /\ Head(last.outcome.msg) \in MissingKeys

C4_Witness ==
  /\ Called
  /\ last.op = "create_invoice"
  /\ MissingKeys = {"amount"}
  /\ Acquisition.outcome.kind = "return"
  /\ last.outcome.kind = "raise"

(* ---------------- C7, C8 ---------------- *)
\* the invoice request of the last invocation was sent
PayloadBuilt == Called /\ last.op = "create_invoice" /\ RequestsTo("create") /= {}

Payload == last.reqs[CHOOSE i \in RequestsTo("create") : TRUE].body

\* C7: the payload has one invoice line per line item, in input order, the
\* i-th with lineNumber i and the amount of the i-th item.
C7_LineNumbering ==
  PayloadBuilt =>
     LET items == last.args[1]["line_items"]
         lines == Payload.invoiceLines
     IN /\ DOMAIN lines = 1..Len(items)
        /\ \A i \in 1..Len(items) :
             /\ lines[i].lineNumber = i
             /\ lines[i].amount.amount = items[i]["amount"]

C7_Witness ==
  /\ PayloadBuilt
  /\ Len(last.args[1]["line_items"]) = 3
  /\ last.args[1]["line_items"][1]["amount"] /= last.args[1]["line_items"][2]["amount"]

\* C8: invoiceTotal and every invoice line carry the currency of the request,
\* "USD" when it has none, whatever currency a line item names.
C8_CurrencyPropagation ==
  PayloadBuilt =>
     LET d == last.args[1]
         cur == IF "currency" \in DOMAIN d THEN d["currency"] ELSE "USD"
     IN /\ Payload.invoiceTotal.currency = cur
        /\ \A i \in DOMAIN Payload.invoiceLines :
             Payload.invoiceLines[i].amount.currency = cur

C8_Witness ==
  /\ PayloadBuilt
  /\ "currency" \in DOMAIN last.args[1]
  /\ \E i \in 1..Len(last.args[1]["line_items"]) :
       /\ "currency" \in DOMAIN last.args[1]["line_items"][i]
       /\ last.args[1]["line_items"][i]["currency"] /= last.args[1]["currency"]

(* ---------------- C9 ---------------- *)
\* the bearer tokens the token endpoint issues (an empty one is no secret)
IssuedTokens ==
  { r.json.access_token :
      r \in { x \in TokenResponses :
                x.kind = "http" /\ x.json_ok /\ "access_token" \in DOMAIN x.json } }
  \ {""}

Secrets == {client_id, client_secret} \cup IssuedTokens

\* C9: no log record written by an invocation contains the client id, the
\* client secret or a bearer token.
C9_NoSecretsLogged ==
  \A i \in 1..Len(logged) : TextParts(logged[i].msg) \cap Secrets = {}

C9_Witness ==
  /\ FailedAt("create")
  /\ Len(logged) >= 1
  /\ token.kind = "str"
  /\ token.val \in IssuedTokens

(* ---------------- C10 ---------------- *)
\* C10: every request an invocation sends to an invoice endpoint carries the
\* bearer token its token acquisition returned, and when the acquisition fails
\* the invocation sends nothing to an invoice endpoint and leaves the cached
\* token and expiry as they were.
C10_TokenBeforeRequest ==
  (Called /\ last.op \in InvoiceOps) =>
     /\ \A i \in RequestsTo(OwnEndpoint(last.op)) :
          /\ Acquisition.outcome.kind = "return"
          /\ last.reqs[i].headers.Authorization
               = <<"Bearer ", Acquisition.outcome.value.val>>
     /\ Acquisition.outcome.kind = "raise" =>
          /\ RequestsTo(OwnEndpoint(last.op)) = {}
          /\ token = last.pre_token
          /\ token_expiry = last.pre_expiry

====
